---- MODULE Spec2Model ----
(***************************************************************************)
(* A model of dashboard.py, the SIEM anomaly dashboard: one Streamlit      *)
(* script run (main) that loads alerts.csv, classifies every row's score   *)
(* into a severity, applies the sidebar filters, computes the metrics,     *)
(* sleeps REFRESH_INTERVAL seconds and reruns itself, while an external    *)
(* detector appends rows to alerts.csv.                                    *)
(*                                                                         *)
(* Units.  A score is held in thousandths (310.0 is 310000), so that       *)
(* 309.999 and 310.0 are distinct values; float('inf') is PosInf, a value  *)
(* above every finite score.  An instant is whole milliseconds counted     *)
(* from EpochZero.  A mean is the exact fraction num/den.                  *)
(***************************************************************************)
EXTENDS Integers, Sequences, FiniteSets, TLC

VARIABLES
    file,         \* alerts.csv: whether it exists, and its data rows in file order
    writes,       \* rows the detector has appended (or begun to append) so far
    pc,           \* where the script run is: "load", "filter", "metrics", "sleep" or "wait"
    running,      \* script runs in flight
    df,           \* load_data()'s DataFrame of this run: <<>> is the empty DataFrame
    widgets,      \* the sidebar's values of this run: cutoff, score range, severities, label
    filtered_df,  \* the filtered DataFrame of this run
    metrics,      \* the four dashboard metrics of this run
    lastGood      \* history: the DataFrame of the last run whose load succeeded

vars == <<file, writes, pc, running, df, widgets, filtered_df, metrics, lastGood>>

(***************************************************************************)
(* Bounds of the model.                                                    *)
(***************************************************************************)
MaxInitRows   == 1   \* rows of alerts.csv when the dashboard starts (Spec)
MaxWrites     == 1   \* rows the detector appends during a run of the model
MaxFilterRows == 2   \* rows of alerts.csv in SpecFilter

(***************************************************************************)
(* Program constants.                                                      *)
(***************************************************************************)
PosInf    == 1000000000     \* float('inf') of the last bin edge
Minutes15 == 900000         \* timedelta(minutes=15)
Hours1    == 3600000        \* timedelta(hours=1)
Hours6    == 21600000       \* timedelta(hours=6)
Hours24   == 86400000       \* timedelta(hours=24)
SliderMin == 310000         \* value=(310.0, 312.0) of the score slider
SliderMax == 312000

NaN == "NaN"                \* the missing value of a categorical column

bins   == <<0, 310000, 311000, 312000, PosInf>>
labels == <<"Low", "Medium", "High", "Critical">>

Row(t, s, l) == [Timestamp |-> t, VAE_Score |-> s, GNN_Label |-> l, text |-> "ok"]

\* The 20 rows the script writes when alerts.csv does not exist.  EpochZero is
\* 2025-04-09 16:00:00; scores are rounded to thousandths.
SAMPLE_DATA ==
    << Row(1526985, 310762, 1), Row(1526986, 310916, 1), Row(1526988, 311125, 1),
       Row(1526988, 311363, 1), Row(1526989, 311659, 1), Row(1526991, 311985, 1),
       Row(1797548, 310581, 1), Row(1798552, 310655, 1), Row(1799558, 310762, 1),
       Row(1800561, 310916, 1), Row(1801637, 311125, 1), Row(1802643, 311364, 1),
       Row(1803647, 311658, 1), Row(2491674, 310581, 1), Row(2492676, 310655, 1),
       Row(2493689, 310762, 1), Row(2494693, 310916, 1), Row(2495695, 311125, 1),
       Row(2496697, 311363, 1), Row(2497700, 311659, 1) >>

(***************************************************************************)
(* load_data: severity classification and the descending sort.             *)
(***************************************************************************)
Range(s) == {s[i] : i \in DOMAIN s}

\* numpy's searchsorted(a, x, side='left'): how many edges lie strictly below x.
searchsorted_left(a, x) == Cardinality({j \in DOMAIN a : a[j] < x})

\* searchsorted(a, x, side='right'), which pd.cut uses when right=False.
searchsorted_right(a, x) == Cardinality({j \in DOMAIN a : a[j] <= x})

pd_cut_right_false(x) ==
    LET ids == searchsorted_right(bins, x)
    IN  IF ids = 0 \/ ids = Len(bins) THEN NaN ELSE labels[ids]

\* pd.cut(x, bins, labels) with its defaults right=True, include_lowest=False:
\* a value outside every bin has no category.
pd_cut(x) ==
    LET ids == searchsorted_left(bins, x)
    IN  IF ids = 0 \/ ids = Len(bins) THEN NaN ELSE labels[ids]

\* A line is whole ("ok"), whole with a score that is not a number ("bad"), or
\* only partly written so far: cut inside its timestamp or inside its score.
Torn(r) == r.text \in {"cut_timestamp", "cut_score"}

\* A line cut inside its score is read as a row with the digits written so far.
Truncated(s) == (s \div 1000) * 1000

\* One row of the DataFrame: `row` is the index read_csv gives the line.
Event(i, r) ==
    [ row       |-> i,
      Timestamp |-> r.Timestamp,
      VAE_Score |-> IF Torn(r) THEN Truncated(r.VAE_Score) ELSE r.VAE_Score,
      GNN_Label |-> r.GNN_Label,
      Severity  |-> pd_cut(IF Torn(r) THEN Truncated(r.VAE_Score) ELSE r.VAE_Score),
      torn      |-> Torn(r) ]

\* The place of row i of s in the frame sorted with the newest first; rows of
\* equal Timestamp keep their file order.
RankAscending(s, i) ==
    1 + Cardinality({j \in DOMAIN s :
            \/ s[j].Timestamp < s[i].Timestamp
            \/ (s[j].Timestamp = s[i].Timestamp /\ j < i)})

RankDescending(s, i) ==
    1 + Cardinality({j \in DOMAIN s :
            \/ s[j].Timestamp > s[i].Timestamp
            \/ (s[j].Timestamp = s[i].Timestamp /\ j < i)})

sort_values_ascending(s) ==
    [k \in DOMAIN s |-> s[CHOOSE i \in DOMAIN s : RankAscending(s, i) = k]]

\* df.sort_values('Timestamp', ascending=False)
sort_values(s) ==
    [k \in DOMAIN s |-> s[CHOOSE i \in DOMAIN s : RankDescending(s, i) = k]]

\* load_data(): any exception (a non-numeric score, an unparsable timestamp, an
\* empty file) is caught and an empty DataFrame returned.  The Time_Ago column
\* is for display only and is left out.
load_data(rows) ==
    IF \E i \in DOMAIN rows : rows[i].text \in {"bad", "cut_timestamp"}
    THEN <<>>
    ELSE sort_values([i \in DOMAIN rows |-> Event(i, rows[i])])

(***************************************************************************)
(* The sidebar and the filters.                                            *)
(***************************************************************************)
Min(S) == CHOOSE x \in S : \A y \in S : x <= y
Max(S) == CHOOSE x \in S : \A y \in S : x >= y

\* The dashboard is looked at one day after the model's first instant.
Now0  == Hours24
EpochZero == Now0 - Hours24
\* datetime.now() as read by the run.
Clock == {Now0}

TimeRanges == {"Last 15 minutes", "Last hour", "Last 6 hours", "Last 24 hours", "All time"}

Cutoff(time_range, now, d) ==
    CASE time_range = "Last 15 minutes" -> now - Minutes15
      [] time_range = "Last hour"       -> now - Hours1
      [] time_range = "Last 6 hours"    -> now - Hours6
      [] time_range = "Last 24 hours"   -> now - Hours24
      [] OTHER                          -> Min({e.Timestamp : e \in Range(d)})

\* The slider runs from the smallest to the largest score, widened to hold its
\* default value (310.0, 312.0); the user's choice is drawn from these stops.
SliderStops(d) ==
    LET scores == {e.VAE_Score : e \in Range(d)}
        lo == Min(scores \cup {SliderMin})
        hi == Max(scores \cup {SliderMax})
    IN  {lo, hi} \cup {x \in {SliderMin, 311000, SliderMax} : lo <= x /\ x <= hi}

LabelFilters == {"All", "Normal (0)", "Anomaly (1)"}

isin_not(e, w) == e.Severity \notin w.severity_filter

\* df['Severity'].isin(severity_filter)
isin(e, w) == e.Severity \in w.severity_filter

LabelMatchesSwapped(e, w) ==
    CASE w.label_filter = "Normal (0)"  -> e.GNN_Label = 1
      [] w.label_filter = "Anomaly (1)" -> e.GNN_Label = 0
      [] OTHER                          -> TRUE

\* The label selections of lines 146-149.
LabelMatches(e, w) ==
    CASE w.label_filter = "Normal (0)"  -> e.GNN_Label = 0
      [] w.label_filter = "Anomaly (1)" -> e.GNN_Label = 1
      [] OTHER                          -> TRUE

Keeps(e, w) ==
    /\ e.Timestamp >= w.cutoff
    /\ e.VAE_Score >= w.min_score
    /\ e.VAE_Score <= w.max_score
    /\ isin(e, w)
    /\ LabelMatches(e, w)

\* The boolean-mask selections of the script: rows keep their order.
ApplyFilters(d, w) == SelectSeq(d, LAMBDA e : Keeps(e, w))

(***************************************************************************)
(* The metrics.                                                            *)
(***************************************************************************)
RECURSIVE Sum(_)
Sum(s) == IF s = <<>> THEN 0 ELSE s[1].VAE_Score + Sum(Tail(s))

\* Series.mean(): NaN (0/0) of no rows, inf as soon as one score is inf.
Mean(s) ==
    IF \E i \in DOMAIN s : s[i].VAE_Score = PosInf
    THEN [num |-> PosInf, den |-> 1]
    ELSE [num |-> Sum(s), den |-> Len(s)]

Zero == [num |-> 0, den |-> 1]

DashboardMetricsNoGuard(d, f) ==
    [ total_count    |-> Len(d),
      filtered_count |-> Len(f),
      avg_score      |-> Mean(f),
      latest         |-> IF f = <<>> THEN <<>> ELSE <<f[1]>> ]

\* "Total Alerts", "Filtered Alerts", "Average VAE Score" and "Latest Alert";
\* latest is <<>> when no metric is shown.
DashboardMetrics(d, f) ==
    [ total_count    |-> Len(d),
      filtered_count |-> Len(f),
      avg_score      |-> IF f = <<>> THEN Zero ELSE Mean(f),
      latest         |-> IF f = <<>> THEN <<>> ELSE <<f[1]>> ]

NoWidgets ==
    [cutoff |-> 0, min_score |-> 0, max_score |-> 0, severity_filter |-> {},
     label_filter |-> "All"]
NoMetrics == [total_count |-> 0, filtered_count |-> 0, avg_score |-> Zero, latest |-> <<>>]

(***************************************************************************)
(* The script run.                                                         *)
(***************************************************************************)
\* initialize_sample_data()
initialize_sample_data(f) ==
    IF f.exists THEN f ELSE [exists |-> TRUE, rows |-> SAMPLE_DATA]

\* main(), lines 80-90: create the sample file if there is none, load, and on
\* an empty DataFrame warn and go to sleep.  The st.cache_data entry of the run
\* before is REFRESH_INTERVAL seconds old when the sleep of that run is over,
\* which is its ttl, so every run reads the file.
LoadData ==
    /\ pc = "load"
    /\ file' = initialize_sample_data(file)
    /\ df' = load_data(file'.rows)
    /\ pc' = IF df' = <<>> THEN "wait" ELSE "filter"
    /\ lastGood' = IF df' = <<>> THEN lastGood ELSE df'
    /\ UNCHANGED <<writes, running, widgets, filtered_df, metrics>>

\* Every value the sidebar of lines 92-136 can hold over the frame d: the time
\* range resolved against the clock, a (min, max) pair of the slider, any
\* selection among the severities present in d, and a label choice.
Sidebar(d) ==
    { [ cutoff          |-> Cutoff(time_range, now, d),
        min_score       |-> range[1],
        max_score       |-> range[2],
        severity_filter |-> sev,
        label_filter    |-> lab ] :
        now \in Clock, time_range \in TimeRanges,
        range \in {r \in SliderStops(d) \X SliderStops(d) : r[1] <= r[2]},
        sev \in SUBSET {e.Severity : e \in Range(d)},
        lab \in LabelFilters }

\* main(), lines 92-149: read the sidebar and apply the filters.
Filter ==
    /\ pc = "filter"
    /\ widgets' \in Sidebar(df)
    /\ filtered_df' = ApplyFilters(df, widgets')
    /\ pc' = "metrics"
    /\ UNCHANGED <<file, writes, running, df, metrics, lastGood>>

\* main(), lines 151-163.
Metrics ==
    /\ pc = "metrics"
    /\ metrics' = DashboardMetrics(df, filtered_df)
    /\ pc' = "sleep"
    /\ UNCHANGED <<file, writes, running, df, widgets, filtered_df, lastGood>>

Idle == pc \in {"sleep", "wait"}
Cycling == pc \in {"load", "filter", "metrics"}

st_rerun_nested(n) == n + 1

\* st.rerun() ends the run that calls it and starts the next one.
st_rerun(n) == (n - 1) + 1

RerunAfterDataOnly ==
    /\ pc = "sleep"
    /\ pc' = "load"
    /\ running' = st_rerun(running)
    /\ df' = <<>>
    /\ widgets' = NoWidgets
    /\ filtered_df' = <<>>
    /\ metrics' = NoMetrics
    /\ UNCHANGED <<file, writes, lastGood>>

\* main(), lines 89-90 and 235-236: time.sleep(REFRESH_INTERVAL), st.rerun().
\* The next run starts with fresh locals.
Rerun ==
    /\ Idle
    /\ pc' = "load"
    /\ running' = st_rerun(running)
    /\ df' = <<>>
    /\ widgets' = NoWidgets
    /\ filtered_df' = <<>>
    /\ metrics' = NoMetrics
    /\ UNCHANGED <<file, writes, lastGood>>

NextMain == LoadData \/ Filter \/ Metrics \/ Rerun

(***************************************************************************)
(* The external detector, which appends to alerts.csv while the dashboard  *)
(* runs.                                                                   *)
(***************************************************************************)
AppendRows == {Row(Now0, 310500, 1)}

LastRowTorn == file.rows # <<>> /\ Torn(file.rows[Len(file.rows)])

\* A whole line reaches the file; `text` "bad" is a line whose score is not a number.
DetectorAppend ==
    /\ file.exists /\ ~LastRowTorn /\ writes < MaxWrites
    /\ \E r \in AppendRows, t \in {"ok", "bad"} :
          file' = [file EXCEPT !.rows = Append(@, [r EXCEPT !.text = t])]
    /\ writes' = writes + 1
    /\ UNCHANGED <<pc, running, df, widgets, filtered_df, metrics, lastGood>>

\* Only the beginning of a line has reached the file.
DetectorBeginWrite ==
    /\ file.exists /\ ~LastRowTorn /\ writes < MaxWrites
    /\ \E r \in AppendRows, t \in {"cut_timestamp", "cut_score"} :
          file' = [file EXCEPT !.rows = Append(@, [r EXCEPT !.text = t])]
    /\ writes' = writes + 1
    /\ UNCHANGED <<pc, running, df, widgets, filtered_df, metrics, lastGood>>

\* The rest of the line reaches the file.
DetectorFinishWrite ==
    /\ LastRowTorn
    /\ file' = [file EXCEPT !.rows[Len(file.rows)].text = "ok"]
    /\ UNCHANGED <<writes, pc, running, df, widgets, filtered_df, metrics, lastGood>>

Next == NextMain \/ DetectorAppend \/ DetectorBeginWrite \/ DetectorFinishWrite

(***************************************************************************)
(* Initial states and specifications.                                      *)
(***************************************************************************)
SeqsUpTo(S, n) == UNION {[1..k -> S] : k \in 0..n}

Fresh(f) ==
    /\ file = f
    /\ writes = 0
    /\ pc = "load"
    /\ running = 1
    /\ df = <<>>
    /\ widgets = NoWidgets
    /\ filtered_df = <<>>
    /\ metrics = NoMetrics
    /\ lastGood = <<>>

InitRows == {Row(EpochZero, 309000, 0), Row(Now0 - Minutes15, 311500, 1)}

Init ==
    \E f \in {[exists |-> FALSE, rows |-> <<>>]}
             \cup {[exists |-> TRUE, rows |-> r] : r \in SeqsUpTo(InitRows, MaxInitRows)} :
        Fresh(f)

Spec == Init /\ [][Next]_vars

\* The script thread keeps running: every step of main() that can be taken is taken.
InitFair ==
    \E r \in SeqsUpTo({Row(Now0 - Minutes15, 311500, 1)}, MaxInitRows) :
        Fresh([exists |-> TRUE, rows |-> r])

FairSpec == InitFair /\ [][Next]_vars /\ WF_vars(NextMain)

\* SpecClassify: one-row files whose score probes every bin edge.
ScoreProbe ==
    {-1000, 0, 1, 309999, 310000, 310001, 310999, 311000, 311001, 311999, 312000,
     312001, PosInf}

InitClassify ==
    \E s \in ScoreProbe, l \in {0, 1} :
        Fresh([exists |-> TRUE, rows |-> <<Row(Now0, s, l)>>])

SpecClassify == InitClassify /\ [][NextMain]_vars

\* SpecFilter: files of a few rows that differ in age, score and label.
FilterRows ==
    {Row(t, s, l) : t \in {Now0 - Hours1, Now0},
                    s \in {310000, 311500}, l \in {0, 1}}

InitFilter ==
    \E r \in SeqsUpTo(FilterRows, MaxFilterRows) : Fresh([exists |-> TRUE, rows |-> r])

SpecFilter == InitFilter /\ [][NextMain]_vars

\* SpecE2E: the seven-event scenario, the events one second apart.
E2EScores == <<310580, 310650, 310760, 310920, 311130, 311360, 311660>>

InitE2E ==
    Fresh([exists |-> TRUE,
           rows |-> [i \in 1..7 |-> Row(Now0 - Hours1 + 1000 * i, E2EScores[i], 1)]])

SpecE2E == InitE2E /\ [][NextMain]_vars

(***************************************************************************)
(* The claims.                                                             *)
(***************************************************************************)

\* C1: after a cycle whose load failed on a row with a non-numeric score, the
\* Snapshot consumers see is still the one the last successful cycle published.
C1_FailedLoadKeepsLastSnapshot ==
    ( /\ pc = "wait"
      /\ lastGood # <<>>
      /\ \E i \in DOMAIN file.rows : file.rows[i].text = "bad"
      /\ \A i \in DOMAIN file.rows : ~Torn(file.rows[i]) )
    => df = lastGood

C3_CycleCompletesAndRestarts == (Cycling ~> Idle) /\ (Idle ~> Cycling)

C3_Witness == pc = "wait" /\ lastGood # <<>> /\ writes > 0

\* C4: every Snapshot a consumer observes is the load of a complete state of the
\* log: of some prefix of the file with every line of it wholly written.
Whole(rows) == [i \in DOMAIN rows |-> [rows[i] EXCEPT !.text = IF Torn(rows[i]) THEN "ok" ELSE @]]

C4_SnapshotIsACompleteLogState ==
    df # <<>> =>
        \E k \in 0..Len(file.rows) : df = load_data(Whole(SubSeq(file.rows, 1, k)))

Loaded == pc \in {"filter", "metrics", "sleep"}

\* C5 as stated: the bins are left-closed and right-open, 310.0 is Medium,
\* 309.999 is Low and 312.0 is Critical.
C5_BinsLeftClosed ==
    \A e \in Range(df) :
        /\ (0 <= e.VAE_Score /\ e.VAE_Score < 310000) => e.Severity = "Low"
        /\ (310000 <= e.VAE_Score /\ e.VAE_Score < 311000) => e.Severity = "Medium"
        /\ (311000 <= e.VAE_Score /\ e.VAE_Score < 312000) => e.Severity = "High"
        /\ e.VAE_Score >= 312000 => e.Severity = "Critical"

\* C5 as amended: the bins are left-open and right-closed: a score s is Low if
\* 0 < s <= 310, Medium if 310 < s <= 311, High if 311 < s <= 312 and Critical
\* if s > 312; 310.0 and 309.999 are Low and 312.0 is High.
C5_BinsRightClosed ==
    \A e \in Range(df) :
        /\ (0 < e.VAE_Score /\ e.VAE_Score <= 310000) => e.Severity = "Low"
        /\ (310000 < e.VAE_Score /\ e.VAE_Score <= 311000) => e.Severity = "Medium"
        /\ (311000 < e.VAE_Score /\ e.VAE_Score <= 312000) => e.Severity = "High"
        /\ e.VAE_Score > 312000 => e.Severity = "Critical"

C5_Witness ==
    /\ Loaded
    /\ \E e \in Range(df) : e.VAE_Score = 310000 /\ e.Severity = "Low"

\* C6: every loaded event, whatever its score (0, negative, +inf), has exactly
\* one of the four severities, and +inf is Critical.
C6_ClassifyIsTotal ==
    \A e \in Range(df) :
        /\ e.Severity \in Range(labels)
        /\ e.VAE_Score = PosInf => e.Severity = "Critical"

FilterDone == pc \in {"metrics", "sleep"}

Descending(s) == \A i \in 1..(Len(s) - 1) : s[i].Timestamp >= s[i + 1].Timestamp

\* f holds rows of s only, each once and in the order s has them (the rows of
\* a frame differ in their index).
IsSubsequence(f, s) == f = SelectSeq(s, LAMBDA e : e \in Range(f))

\* C7: the filtered view is a sub-sequence of the Snapshot that keeps its
\* descending-timestamp order, and filtering leaves the Snapshot unchanged.
C7_FilterIsOrderedSubsequence ==
    /\ [](FilterDone => /\ Descending(df)
                        /\ IsSubsequence(filtered_df, df)
                        /\ Descending(filtered_df))
    /\ [][pc = "filter" => df' = df]_vars

C7_Witness ==
    /\ FilterDone
    /\ Len(file.rows) = 2 /\ file.rows[1].Timestamp < file.rows[2].Timestamp
    /\ filtered_df = df
    /\ df[1].Timestamp > df[2].Timestamp

\* The FilterSpecs at least as wide as w: an earlier or equal cutoff, a score
\* range containing w's, a superset of w's severities, w's label choice or All.
CutoffProbe == {EpochZero, Now0 - Hours1}
ScoreEdges  == {309999, 311000, 312001}
Severities  == Range(labels) \cup {NaN}

Wider(w) ==
    { [ cutoff          |-> c,
        min_score       |-> lo,
        max_score       |-> hi,
        severity_filter |-> sev,
        label_filter    |-> lab ] :
        c   \in {x \in CutoffProbe \cup {w.cutoff} : x <= w.cutoff},
        lo  \in {x \in ScoreEdges \cup {w.min_score} : x <= w.min_score},
        hi  \in {x \in ScoreEdges \cup {w.max_score} : x >= w.max_score},
        sev \in {w.severity_filter, Severities}
                \cup {w.severity_filter \cup {x} : x \in Severities},
        lab \in {w.label_filter, "All"} }

\* C8: a FilterSpec wider than the one applied never yields fewer events.
C8_WiderFilterKeepsMore ==
    FilterDone => \A w \in Wider(widgets) : Len(ApplyFilters(df, w)) >= Len(filtered_df)

C8_Witness ==
    /\ FilterDone
    /\ Len(df) = 2 /\ Len(filtered_df) = 1
    /\ \E w \in Wider(widgets) : Len(ApplyFilters(df, w)) = 2

IsZero(m) == m.den # 0 /\ m.num = 0

\* C9: when the FilterSpec matches no event of the Snapshot, the summary has
\* filtered_count 0, mean_score 0.0, no latest record, and total_count len(S).
C9_EmptyViewSummary ==
    (pc = "sleep" /\ \A e \in Range(df) : ~Keeps(e, widgets)) =>
        /\ metrics.filtered_count = 0
        /\ IsZero(metrics.avg_score)
        /\ metrics.latest = <<>>
        /\ metrics.total_count = Len(df)

C9_Witness == pc = "sleep" /\ Len(df) = 2 /\ filtered_df = <<>>

\* |m - c| <= tol, for a mean m = num/den.
Within(m, c, tol) ==
    /\ m.den > 0
    /\ m.num - c * m.den <= tol * m.den
    /\ c * m.den - m.num <= tol * m.den

\* The FilterSpec of the end-to-end scenario, and the sidebar setting that
\* expresses it (the sidebar offers the severities present in the data).
E2EFilter ==
    [cutoff |-> EpochZero, min_score |-> 310000, max_score |-> 312000,
     severity_filter |-> Range(labels), label_filter |-> "Anomaly (1)"]
E2ESidebar == [E2EFilter EXCEPT !.severity_filter = {"Medium", "High"}]

E2EHolds(mean) ==
    /\ LET f == ApplyFilters(df, E2EFilter)
           m == DashboardMetrics(df, f)
       IN  Loaded => (f = df /\ m.filtered_count = 7 /\ Within(m.avg_score, mean, 10))
    /\ (pc = "sleep" /\ widgets = E2ESidebar) =>
           /\ filtered_df = df
           /\ metrics.filtered_count = 7
           /\ Within(metrics.avg_score, mean, 10)

\* C10 as stated: the scenario returns all 7 events, filtered_count is 7 and
\* mean_score is within 0.01 of 310.99.
C10_MeanNear31099 == E2EHolds(310990)

\* C10 as amended: the scenario returns all 7 events, filtered_count is 7 and
\* mean_score is within 0.01 of 311.01 (the mean of the seven scores is 311.0086).
C10_MeanNear31101 == E2EHolds(311010)

C10_Witness == pc = "sleep" /\ widgets = E2ESidebar /\ Len(filtered_df) = 7

====
